---- MODULE Spec2Model ----
(***************************************************************************)
(* BlockDB MongoDB tap: the streaming wire-protocol extractor.             *)
(*                                                                         *)
(* Two generations of the extractor live in the repository:                *)
(*   - src/unnamed/part_001: Extractor, used for both directions of a      *)
(*     dialog, enqueueing LogEvents to the ledger writer;                  *)
(*   - src/plugins/server/mongodb/extractor.go: RequestExtractor for the   *)
(*     incoming direction and the stub ResponseExtractor for the outgoing. *)
(* The variable impl records which ExtractorFactory built the observer.    *)
(*                                                                         *)
(* Bytes are naturals 0..255, []byte is a sequence of them; a nil pointer  *)
(* is the empty sequence <<>> and a non-nil pointer a one-element sequence.*)
(* Strings carried on the wire (the user name) are one byte; 0 is "".      *)
(***************************************************************************)
EXTENDS Integers, Sequences, FiniteSets, TLC

\* ------------------------------------------------------------------ bounds
\* Messages the two peers of the dialog send in total.
MaxMsgs == 2
\* Chunks one message is written in, in the scenario runs.
MaxChunks == 2
\* Records a log4j2 appender sends on one connection.
MaxRecords == 2

\* ------------------------------------------------------- program constants
HeaderLen == 16

OpReply == 1
OpUpdate == 2001
OpInsert == 2002
Reserved == 2003
OpQuery == 2004
OpGetMore == 2005
OpDelete == 2006
OpKillCursors == 2007
OpCommand == 2010
OpCommandReply == 2011
OpMsg == 2013

Dirs == {"req", "resp"}
Impls == {"part_001", "extractor.go"}

VARIABLES
    impl,       \* which ExtractorFactory.GetInstance built the observer
    talker,     \* the peers that send in this run: one direction, or "both"
    msgs,       \* msgs[d]: the messages the peer has sent on direction d
    pending,    \* pending[d]: bytes relayed on d, not yet written to the tap
    ext,        \* ext[s]: the extractor behind writer s (a direction of a dialog)
    emitted,    \* LogEvents handed to EnqueueSendToLedger / fmt.Println
    last,       \* the most recent Write call: its writer and what it returned
    mu,         \* mu[d]: the goroutine holding e.mu of ext[d], or "free"
    thr,        \* thr[t]: where goroutine t stands inside Write, and its b
    order,      \* order[d]: the chunks written to ext[d], in locking order
    records,    \* log4j2: the records the appender has sent, without NUL
    conn,       \* log4j2: bytes on the connection, not yet read from it
    eof,        \* log4j2: the appender has closed the connection
    rd,         \* log4j2: bytes the current bufio.Reader holds unreturned
    parsed,     \* log4j2: the arguments of the ParseCommand calls so far
    pc          \* log4j2: ProcessConnection is in its loop, or has returned

logVars == <<records, conn, eof, rd, parsed, pc>>
vars ==
    <<impl, talker, msgs, pending, ext, emitted, last, mu, thr, order, logVars>>
dialogVars == <<impl, talker, msgs, pending, ext, emitted, last, mu, thr, order>>

\* --------------------------------------------------------- wire encoding
\* Little-endian int32, as the peers put it on the wire.
PutInt32(v) ==
    LET w == IF v < 0 THEN v + 2147483647 + 1 ELSE v
        hi == w \div 16777216
    IN  << w % 256, (w \div 256) % 256, (w \div 65536) % 256,
           IF v < 0 THEN hi + 128 ELSE hi >>

\* bytes.GetInt32(b, pos): the int32 at byte offset pos (0-based).
GetInt32(b, pos) ==
    LET lo == b[pos + 1] + 256 * b[pos + 2] + 65536 * b[pos + 3]
        hi == b[pos + 4]
    IN  IF hi < 128 THEN hi * 16777216 + lo
        ELSE (hi - 256) * 16777216 + lo

\* A message as its sender frames it: size counts the header.
MkMsg(op, payload, rid) ==
    [ size |-> HeaderLen + Len(payload), requestId |-> rid, responseTo |-> 0,
      opcode |-> op, payload |-> payload ]

MsgBytes(m) ==
    PutInt32(m.size) \o PutInt32(m.requestId) \o PutInt32(m.responseTo)
        \o PutInt32(m.opcode) \o m.payload

\* What a peer may send: opcode and payload.  The first payload byte is the
\* user name of the message (0: none), the second its document id.
Templates ==
    { <<OpQuery, <<>>>>,          \* header only
      <<OpQuery, <<1>>>>,         \* carries identity 1
      <<OpMsg, <<2>>>>,           \* carries identity 2
      <<OpReply, <<0>>>>,         \* no identity
      <<OpInsert, <<0>>>>,        \* recognized, extraction not implemented
      <<65535, <<0>>>> }          \* unknown opcode 0xFFFF

Take(s, n) == SubSeq(s, 1, n)
Drop(s, n) == SubSeq(s, n + 1, Len(s))

\* ------------------------------------------------------------ the codec
Nil == <<>>
Ptr(x) == <<x>>
Deref(p) == p[1]

\* decodeHeader: needs HeaderLen bytes, reads four int32 fields.
decodeHeader(b) ==
    IF Len(b) < HeaderLen
    THEN [ header |-> Nil, err |-> "short" ]
    ELSE [ header |-> Ptr([ MessageSize |-> GetInt32(b, 0),
                            RequestID   |-> GetInt32(b, 4),
                            ResponseTo  |-> GetInt32(b, 8),
                            OpCode      |-> GetInt32(b, 12) ]),
           err |-> "nil" ]

\* message.DecodeHeader, called by Extractor.Write.
DecodeHeader(b) == decodeHeader(b)

Implemented == {OpReply, OpQuery, OpMsg}
NotImplemented ==
    {OpUpdate, OpInsert, Reserved, OpGetMore, OpDelete, OpKillCursors,
     OpCommand, OpCommandReply}
Recognized == Implemented \cup NotImplemented

\* mm.ExtractBasic() of the per-opcode decoders: user and document id.
ExtractBasic(h, b) ==
    [ user  |-> IF Len(b) > HeaderLen THEN b[HeaderLen + 1] ELSE 0,
      docId |-> IF Len(b) > HeaderLen + 1 THEN b[HeaderLen + 2] ELSE 0 ]

\* MessageSize is a uint32 in part_001; the model keeps the int32 bit
\* pattern, a negative value standing for one >= 2^31.
LenEqSize(n, size) == size >= 0 /\ n = size
LenLtSizeU32(n, size) == size < 0 \/ n < size
\* int32(len) < MessageSize, the signed comparison of extractor.go.
LenLtSizeI32(n, size) == n < size

\* extractMessage of part_001.
extractMessage(header, b) ==
    IF ~LenEqSize(Len(b), header.MessageSize)
    THEN [ msg |-> Nil, err |-> "length" ]
    ELSE IF header.OpCode \in Implemented
    THEN LET basic == ExtractBasic(header, b)
         IN  [ msg |-> Ptr([ DBUser |-> basic.user, DocID |-> basic.docId,
                             Op |-> header.OpCode,
                             RequestID |-> header.RequestID ]),
               err |-> "nil" ]
    ELSE IF header.OpCode \in NotImplemented
    THEN [ msg |-> Nil, err |-> "notimplemented" ]
    ELSE [ msg |-> Nil, err |-> "unknown" ]

\* extractMessage of extractor.go: every recognized opcode builds a message,
\* DBUser is left at its zero value.
extractMessageReq(header, b) ==
    IF header.OpCode \in Recognized
    THEN [ msg |-> Ptr([ DBUser |-> 0, DocID |-> 0, Op |-> header.OpCode,
                         RequestID |-> header.RequestID ]),
           err |-> "nil" ]
    ELSE [ msg |-> Nil, err |-> "unknown" ]

\* --------------------------------------------------- Extractor (part_001)
\* multiplexer.DialogContext is passed and stored by value.
NewDialogContext == [ User |-> 0 ]

NewExtractor(context) ==
    [ kind |-> "Extractor", context |-> context, header |-> Nil, buf |-> <<>> ]

init(e, header) == [ e EXCEPT !.header = header ]

\* Variant: the header is cleared but the consumed bytes stay buffered.
reset_KeepBuf(e) ==
    IF e.header = Nil
    THEN [ e EXCEPT !.buf = <<>> ]
    ELSE [ e EXCEPT !.header = Nil ]

\* Variant: reset drops the header's bytes only, not the payload's.
reset_DropHeader(e) ==
    IF e.header = Nil
    THEN [ e EXCEPT !.buf = <<>> ]
    ELSE [ e EXCEPT !.buf = Drop(e.buf, HeaderLen), !.header = Nil ]

reset(e) ==
    IF e.header = Nil
    THEN [ e EXCEPT !.buf = <<>> ]
    ELSE [ e EXCEPT !.buf = Drop(e.buf, Deref(e.header).MessageSize),
                    !.header = Nil ]

\* Variant: the chunk replaces the buffer instead of extending it.
AppendBuf_Replace(e, b) == [ e EXCEPT !.buf = b ]

\* e.buf = append(e.buf, b...)
AppendBuf(e, b) == [ e EXCEPT !.buf = e.buf \o b ]

\* Variant: the header is decoded from whatever is buffered.
ShouldDecode_Early(e) == e.header = Nil /\ Len(e.buf) > 0

\* e.header == nil && len(e.buf) > message.HeaderLen
ShouldDecode(e) == e.header = Nil /\ Len(e.buf) > HeaderLen

\* e.header == nil || uint32(len(e.buf)) < e.header.MessageSize
NeedMore(e) ==
    e.header = Nil \/ LenLtSizeU32(Len(e.buf), Deref(e.header).MessageSize)

\* Variant: the message's user always overwrites the context's.
SetUser_Always(e, m) ==
    [ e |-> [ e EXCEPT !.context.User = m.DBUser ], user |-> m.DBUser ]

\* "set user to context": the message's user is promoted into the
\* extractor's context, or the message takes the context's user.
SetUser(e, m) ==
    IF m.DBUser # 0
    THEN [ e |-> [ e EXCEPT !.context.User = m.DBUser ], user |-> m.DBUser ]
    ELSE [ e |-> e, user |-> e.context.User ]

LogEvent(msg, identity) ==
    [ Type |-> "mongo", Identity |-> identity, PrimaryKey |-> msg.DocID,
      Op |-> msg.Op, RequestID |-> msg.RequestID ]

\* Variant: an error return reports nothing consumed.
ErrReturn_Zero(e, n, err) == [ e |-> e, n |-> 0, err |-> err, out |-> <<>> ]

\* Variant: the error is swallowed, the caller sees nil.
ErrReturn_Swallow(e, n, err) == [ e |-> e, n |-> n, err |-> "nil", out |-> <<>> ]

\* return len(b), err
ErrReturn(e, n, err) == [ e |-> e, n |-> n, err |-> err, out |-> <<>> ]

\* e.buf[:n] or e.buf[n:] is within the slice: the run-time bounds check.
InBounds(n, len) == 0 <= n /\ n <= len

\* The bounds check fails: Write panics ("slice bounds out of range"), the
\* deferred Unlock runs, nothing is returned.
PanicReturn(e) == [ e |-> e, n |-> -1, err |-> "panic", out |-> <<>> ]

\* return len(b), nil
OkReturn(e, n, out) == [ e |-> e, n |-> n, err |-> "nil", out |-> out ]

\* Extractor.Write after the append, to its return: n is len(b).
WriteRest(e, n) ==
    LET dec == DecodeHeader(e.buf)
        e1  == IF ShouldDecode(e) /\ dec.err = "nil"
               THEN init(e, dec.header) ELSE e
    IN  IF ShouldDecode(e) /\ dec.err # "nil" THEN ErrReturn(e, n, dec.err)
        ELSE IF NeedMore(e1) THEN OkReturn(e1, n, <<>>)
        ELSE IF ~InBounds(Deref(e1.header).MessageSize, Len(e1.buf))
        THEN PanicReturn(e1)
        ELSE LET h == Deref(e1.header)
                 r == extractMessage(h, Take(e1.buf, h.MessageSize))
             IN  IF r.err # "nil" THEN ErrReturn(e1, n, r.err)
                 ELSE LET m == Deref(r.msg)
                          s == SetUser(e1, m)
                      IN  OkReturn(reset(s.e), n, << LogEvent(m, s.user) >>)

\* Extractor.Write(p)
Write(e, p) == WriteRest(AppendBuf(e, p), Len(p))

\* ------------------------------------------ RequestExtractor (extractor.go)
NewRequestExtractor(context) ==
    [ kind |-> "RequestExtractor", context |-> context, header |-> Nil,
      buf |-> <<>> ]

NewResponseExtractor(context) ==
    [ kind |-> "ResponseExtractor", context |-> context, header |-> Nil,
      buf |-> <<>> ]

\* e.header == nil || int32(len(e.buf)) < e.header.MessageSize
NeedMoreReq(e) ==
    e.header = Nil \/ LenLtSizeI32(Len(e.buf), Deref(e.header).MessageSize)

\* RequestExtractor.Write(p); its init and reset are those of Extractor.
RequestExtractorWrite(e, p) ==
    LET n   == Len(p)
        e0  == AppendBuf(e, p)
        dec == decodeHeader(e0.buf)
        e1  == IF ShouldDecode(e0) /\ dec.err = "nil"
               THEN init(e0, dec.header) ELSE e0
    IN  IF ShouldDecode(e0) /\ dec.err # "nil" THEN ErrReturn(e0, n, dec.err)
        ELSE IF NeedMoreReq(e1) THEN OkReturn(e1, n, <<>>)
        ELSE IF ~InBounds(Deref(e1.header).MessageSize, Len(e1.buf))
        THEN PanicReturn(e1)
        ELSE LET h == Deref(e1.header)
                 r == extractMessageReq(h, Take(e1.buf, h.MessageSize))
             IN  IF r.err # "nil" THEN ErrReturn(e1, n, r.err)
                 ELSE LET m == Deref(r.msg)
                      IN  OkReturn(reset(e1), n, << LogEvent(m, m.DBUser) >>)

\* Variant: the stub rejects what it cannot decode.
ResponseExtractorWrite_Err(e, p) == ErrReturn(e, Len(p), "notimplemented")

\* ResponseExtractor.Write: the stub.
ResponseExtractorWrite(e, p) == OkReturn(e, Len(p), <<>>)

\* ----------------------------------------------------------- the observer
\* ExtractorFactory.GetInstance(context): req and resp each keep a copy of
\* the context handed in.
GetInstance(which, context) ==
    IF which = "part_001"
    THEN [ req |-> NewExtractor(context), resp |-> NewExtractor(context) ]
    ELSE [ req |-> NewRequestExtractor(context),
           resp |-> NewResponseExtractor(context) ]

\* The extractors GetInstance has built, by the writer that reaches them:
\* the two directions of the dialog under observation, and those of a
\* second dialog the factory was asked for.
Second(d) == IF d = "req" THEN "req2" ELSE "resp2"
Slots == Dirs \cup { Second(d) : d \in Dirs }

\* Variant: the factory hands every dialog the same pair of extractors.
Slot_Singleton(g, d) == d

\* Each call of GetInstance builds its own pair, one extractor a direction.
Slot(g, d) == IF g = 1 THEN d ELSE Second(d)

Observers(which) ==
    LET a == GetInstance(which, NewDialogContext)
        b == GetInstance(which, NewDialogContext)
    IN  [ s \in Slots |-> IF s \in Dirs THEN a[s]
                          ELSE IF s = Second("req") THEN b["req"]
                          ELSE b["resp"] ]

\* io.Writer dispatch on the dynamic type behind the interface.
WriterWrite(e, p) ==
    CASE e.kind = "Extractor" -> Write(e, p)
      [] e.kind = "RequestExtractor" -> RequestExtractorWrite(e, p)
      [] OTHER -> ResponseExtractorWrite(e, p)

\* ---------------------------------------------------------- the dialog
Threads == {"t1", "t2"}
NoCall == [ dir |-> "none", full |-> TRUE, err |-> "nil", out |-> 0 ]
Idle == [ pc |-> "idle", dir |-> "none", b |-> <<>> ]

Tag(d, out) == [ i \in 1 .. Len(out) |-> [ from |-> d, ev |-> out[i] ] ]

InitWith(impls, talkers) ==
    /\ impl \in impls
    /\ talker \in talkers
    /\ msgs = [ d \in Dirs |-> <<>> ]
    /\ pending = [ d \in Dirs |-> <<>> ]
    /\ ext = Observers(impl)
    /\ emitted = <<>>
    /\ last = NoCall
    /\ mu = [ d \in Dirs |-> "free" ]
    /\ thr = [ t \in Threads |-> Idle ]
    /\ order = [ d \in Dirs |-> <<>> ]
    /\ records = <<>>
    /\ conn = <<>>
    /\ eof = FALSE
    /\ rd = <<>>
    /\ parsed = <<>>
    /\ pc = "loop"

\* The peer of direction d sends one more message; the relay reads it.
Send(d) ==
    /\ talker \in {d, "both"}
    /\ Len(msgs["req"]) + Len(msgs["resp"]) < MaxMsgs
    /\ \E t \in Templates :
          LET m == MkMsg(t[1], t[2], Len(msgs[d]) + 1)
          IN  /\ msgs' = [ msgs EXCEPT ![d] = Append(@, m) ]
              /\ pending' = [ pending EXCEPT ![d] = @ \o MsgBytes(m) ]
    /\ UNCHANGED <<logVars, impl, talker, ext, emitted, last, mu, thr, order>>

\* The relay path of direction d mirrors its next k bytes into the tap:
\* GetIncomingWriter().Write(p) or GetOutgoingWriter().Write(p).  One relay
\* path drives a direction, so the call runs from Lock to Unlock undisturbed.
Mirror(d, k) ==
    LET p == Take(pending[d], k)
        r == WriterWrite(ext[Slot(1, d)], p)
    IN  /\ pending' = [ pending EXCEPT ![d] = Drop(@, k) ]
        /\ ext' = [ ext EXCEPT ![Slot(1, d)] = r.e ]
        /\ emitted' = emitted \o Tag(d, r.out)
        /\ last' = [ dir |-> d, full |-> (r.n = Len(p)), err |-> r.err,
                     out |-> Len(r.out) ]
        /\ UNCHANGED <<logVars, impl, talker, msgs, mu, thr>>

Relay(d, k) == Mirror(d, k) /\ UNCHANGED order

\* The same, the chunk handed over being noted in order[d].
RelayChunk(d, k) ==
    /\ Mirror(d, k)
    /\ order' = [ order EXCEPT ![d] = Append(@, Take(pending[d], k)) ]

\* Coarse chunking: the relay hands over a header's worth of bytes or
\* everything it has read (or nothing).
Segments(d) ==
    {0, Len(pending[d])}
        \cup (IF Len(pending[d]) > HeaderLen THEN {HeaderLen} ELSE {})

\* One direction talks; its bytes reach the tap in chunks of any size.
TapWrite(d) ==
    /\ talker = d
    /\ \E k \in 0 .. Len(pending[d]) : Relay(d, k)

Init == InitWith(Impls, Dirs)
Next == \E d \in Dirs : Send(d) \/ TapWrite(d)
Spec == Init /\ [][Next]_vars

\* The relay path keeps calling Write while it has bytes to hand over.
SpecLive == Spec /\ \A d \in Dirs : WF_vars(TapWrite(d))

\* Both directions talk, in coarse chunks.
TapWriteSegment(d) == \E k \in Segments(d) : Relay(d, k)

InitDialog == InitWith(Impls, {"both"})
NextDialog == \E d \in Dirs : Send(d) \/ TapWriteSegment(d)
SpecDialog == InitDialog /\ [][NextDialog]_vars

\* Writes issued by several goroutines on the same Extractor, step by step:
\* b := copy of p (84-85), e.mu.Lock() (87), the append (90), and the rest of
\* the body with the deferred Unlock (93-131, 88).
\* Variant: Write without the mutex.
CanLock_Always(m) == TRUE

CanLock(m) == m = "free"

Call(t, d) ==
    /\ talker = d
    /\ thr[t].pc = "idle"
    /\ \E k \in Segments(d) \ {0} :
          /\ thr' = [ thr EXCEPT ![t] = [ pc |-> "copied", dir |-> d,
                                          b |-> Take(pending[d], k) ] ]
          /\ pending' = [ pending EXCEPT ![d] = Drop(@, k) ]
    /\ UNCHANGED <<logVars, impl, talker, msgs, ext, emitted, last, mu, order>>

Lock(t) ==
    /\ thr[t].pc = "copied"
    /\ CanLock(mu[thr[t].dir])
    /\ mu' = [ mu EXCEPT ![thr[t].dir] = t ]
    /\ order' = [ order EXCEPT ![thr[t].dir] = Append(@, thr[t].b) ]
    /\ thr' = [ thr EXCEPT ![t].pc = "locked" ]
    /\ UNCHANGED <<logVars, impl, talker, msgs, pending, ext, emitted, last>>

DoAppend(t) ==
    /\ thr[t].pc = "locked"
    /\ ext' = [ ext EXCEPT ![thr[t].dir] = AppendBuf(@, thr[t].b) ]
    /\ thr' = [ thr EXCEPT ![t].pc = "appended" ]
    /\ UNCHANGED <<logVars, impl, talker, msgs, pending, emitted, last, mu, order>>

Finish(t) ==
    /\ thr[t].pc = "appended"
    /\ LET d == thr[t].dir
           r == WriteRest(ext[d], Len(thr[t].b))
       IN  /\ ext' = [ ext EXCEPT ![d] = r.e ]
           /\ emitted' = emitted \o Tag(d, r.out)
           /\ last' = [ dir |-> d, full |-> (r.n = Len(thr[t].b)),
                        err |-> r.err, out |-> Len(r.out) ]
           /\ mu' = [ mu EXCEPT ![d] = "free" ]
    /\ thr' = [ thr EXCEPT ![t] = Idle ]
    /\ UNCHANGED <<logVars, impl, talker, msgs, pending, order>>

InitConc == InitWith({"part_001"}, Dirs)
NextConc ==
    \/ \E d \in Dirs : Send(d)
    \/ \E t \in Threads, d \in Dirs : Call(t, d)
    \/ \E t \in Threads : Lock(t) \/ DoAppend(t) \/ Finish(t)
SpecConc == InitConc /\ [][NextConc]_vars

\* A peer that does not keep to the framing: the size field is whatever the
\* peer writes, the bytes on the wire are the header and the payload.
MkRaw(size, op, payload, rid) ==
    [ MkMsg(op, payload, rid) EXCEPT !.size = size ]

\* Declared size, opcode and payload of what such a peer may send.
RawTemplates ==
    { <<17, OpQuery, <<1>>>>,       \* well-formed
      <<18, OpQuery, <<1, 0>>>>,    \* well-formed, two payload bytes
      <<8, OpQuery, <<1>>>>,        \* declares less than a header
      <<0, OpQuery, <<1>>>>,        \* declares nothing
      <<18, 65535, <<0, 0>>>>,      \* unknown opcode 0xFFFF
      <<-1, OpQuery, <<1>>>> }      \* size 0xFFFFFFFF, high bit set

SendRaw(d) ==
    /\ talker = d
    /\ Len(msgs[d]) < MaxMsgs
    /\ \E t \in RawTemplates :
          LET m == MkRaw(t[1], t[2], t[3], Len(msgs[d]) + 1)
          IN  /\ msgs' = [ msgs EXCEPT ![d] = Append(@, m) ]
              /\ pending' = [ pending EXCEPT ![d] = @ \o MsgBytes(m) ]
    /\ UNCHANGED <<logVars, impl, talker, ext, emitted, last, mu, thr, order>>

\* The tap is observed until the ledger queue holds more events than the
\* peer sent messages.
TapWriteRaw(d) ==
    /\ talker = d
    /\ Len(emitted) <= MaxMsgs
    /\ \E k \in 0 .. Len(pending[d]) : Relay(d, k)

NextRaw == \E d \in Dirs : SendRaw(d) \/ TapWriteRaw(d)
SpecRaw == Init /\ [][NextRaw]_vars

\* One message with four payload bytes and responseTo = -1, written to the
\* tap in at most MaxChunks chunks of any sizes.
ScenarioTemplates ==
    { <<OpQuery, <<0, 0, 0, 0>>>>,
      <<OpQuery, <<1, 2, 0, 0>>>>,
      <<OpMsg, <<2, 0, 0, 0>>>>,
      <<OpInsert, <<0, 0, 0, 0>>>> }

MkScenario(op, payload) == [ MkMsg(op, payload, 1) EXCEPT !.responseTo = -1 ]

SendScenario(d) ==
    /\ talker = d
    /\ msgs[d] = <<>>
    /\ \E t \in ScenarioTemplates :
          LET m == MkScenario(t[1], t[2])
          IN  /\ msgs' = [ msgs EXCEPT ![d] = <<m>> ]
              /\ pending' = [ pending EXCEPT ![d] = MsgBytes(m) ]
    /\ UNCHANGED <<logVars, impl, talker, ext, emitted, last, mu, thr, order>>

WriteChunk(d) ==
    /\ talker = d
    /\ Len(order[d]) < MaxChunks
    /\ \E k \in 1 .. Len(pending[d]) : RelayChunk(d, k)

NextScenario == \E d \in Dirs : SendScenario(d) \/ WriteChunk(d)
SpecScenario == Init /\ [][NextScenario]_vars

\* A second dialog goes on beside the observed one: whole messages are
\* written to its extractors, until one of them has emitted.
Chunks2 ==
    { MsgBytes(MkMsg(OpQuery, <<1>>, 1)), MsgBytes(MkMsg(65535, <<0>>, 1)) }

Write2(d) ==
    /\ ext[Slot(2, d)].buf = <<>>
    /\ \A j \in 1 .. Len(emitted) : emitted[j].from \in Dirs
    /\ \E p \in Chunks2 :
          LET r == WriterWrite(ext[Slot(2, d)], p)
          IN  /\ ext' = [ ext EXCEPT ![Slot(2, d)] = r.e ]
              /\ emitted' = emitted \o Tag(Second(d), r.out)
              /\ last' = [ dir |-> Second(d), full |-> (r.n = Len(p)),
                           err |-> r.err, out |-> Len(r.out) ]
    /\ UNCHANGED <<logVars, impl, talker, msgs, pending, mu, thr, order>>

NextFrame == \E d \in Dirs : Send(d) \/ TapWriteSegment(d) \/ Write2(d)
SpecFrame == InitDialog /\ [][NextFrame]_vars

\* ------------------------------------- Log4j2SocketProcessor (processor.go)
\* A record is JSON text, followed on the wire by a NUL byte.
NUL == 0
RecordBodies == { <<1>>, <<1, 2>>, <<2, 1>> }

\* The index of the first NUL in b, 0 if there is none.
IndexNUL(b) ==
    IF \E i \in 1 .. Len(b) : b[i] = NUL
    THEN CHOOSE i \in 1 .. Len(b) : b[i] = NUL /\ \A j \in 1 .. i - 1 : b[j] # NUL
    ELSE 0

\* The appender writes one more record to the socket.
AppenderSend ==
    /\ ~eof
    /\ Len(records) < MaxRecords
    /\ \E r \in RecordBodies :
          /\ records' = Append(records, r)
          /\ conn' = conn \o r \o <<NUL>>
    /\ UNCHANGED <<dialogVars, eof, rd, parsed, pc>>

AppenderClose ==
    /\ ~eof
    /\ eof' = TRUE
    /\ UNCHANGED <<dialogVars, records, conn, rd, parsed, pc>>

\* ReadString finds no NUL in the reader's buffer and fills it: one
\* conn.Read, which returns some of the bytes that have arrived.
Fill ==
    /\ pc = "loop"
    /\ IndexNUL(rd) = 0
    /\ \E k \in 1 .. Len(conn) :
          /\ rd' = rd \o Take(conn, k)
          /\ conn' = Drop(conn, k)
    /\ UNCHANGED <<dialogVars, records, eof, parsed, pc>>

\* ReadString returns the bytes up to the first NUL; the NUL is cut off and
\* ParseCommand gets the rest (52-56).  The loop starts over and line 40
\* makes a new bufio.Reader: what the old one still held goes with it.
ReturnString ==
    /\ pc = "loop"
    /\ IndexNUL(rd) # 0
    /\ parsed' = Append(parsed, Take(rd, IndexNUL(rd) - 1))
    /\ rd' = <<>>
    /\ UNCHANGED <<dialogVars, records, conn, eof, pc>>

\* ReadString fails with io.EOF (42-44) or with a timeout (45-48) while
\* nothing is left to read: ProcessConnection returns nil.
ReadFails ==
    /\ pc = "loop"
    /\ IndexNUL(rd) = 0
    /\ conn = <<>>
    /\ pc' = "returned"
    /\ UNCHANGED <<dialogVars, records, conn, eof, rd, parsed>>

InitLog4j2 == InitWith({"part_001"}, {"req"})
NextLog4j2 ==
    AppenderSend \/ AppenderClose \/ Fill \/ ReturnString \/ ReadFails
SpecLog4j2 == InitLog4j2 /\ [][NextLog4j2]_vars

\* ================================================================ claims
RECURSIVE Concat(_)
Concat(ms) == IF ms = <<>> THEN <<>> ELSE MsgBytes(Head(ms)) \o Concat(Tail(ms))

RECURSIVE PrefixLen(_, _)
PrefixLen(ms, i) == IF i = 0 THEN 0 ELSE ms[i].size + PrefixLen(ms, i - 1)

\* The bytes of direction d already written to its tap.
Written(d) == Take(Concat(msgs[d]), Len(Concat(msgs[d])) - Len(pending[d]))

EventsOf(d) == SelectSeq(emitted, LAMBDA x : x.from = d)
MsgOf(x) == msgs[x.from][x.ev.RequestID]
UserOf(m) == IF Len(m.payload) >= 1 THEN m.payload[1] ELSE 0
Valid(m) == m.size >= HeaderLen /\ m.opcode \in Implemented
               /\ Len(m.payload) = m.size - HeaderLen
Framing(e) == e.kind \in {"Extractor", "RequestExtractor"}
Fresh(d) == GetInstance(impl, NewDialogContext)[d]
ExtractErrs == {"notimplemented", "unknown"}

\* C1: one valid message (empty payload included), written to a fresh
\* extractor in chunks of any sizes, is emitted exactly once, with the event
\* a single chunk gives, and leaves the buffer empty and no header held.
C1_ChunkInvariance ==
    \A d \in Dirs :
        (Framing(ext[d]) /\ Len(msgs[d]) = 1 /\ Valid(msgs[d][1])
            /\ pending[d] = <<>>)
        => /\ Len(EventsOf(d)) = 1
           /\ EventsOf(d) = Tag(d, WriterWrite(Fresh(d), MsgBytes(msgs[d][1])).out)
           /\ ext[d].buf = <<>>
           /\ ext[d].header = Nil

\* C2: a Write whose extraction fails (unknown or unimplemented opcode) has
\* reset the extractor when it returns: no header is held and the failed
\* message's size bytes are gone from the front of the buffer.
C2_ResetAfterExtractError ==
    \A d \in Dirs :
        (last.dir = d /\ last.err \in ExtractErrs)
        => /\ ext[d].header = Nil
           /\ \E i \in 1 .. Len(msgs[d]) :
                 /\ msgs[d][i].opcode \notin Implemented
                 /\ Len(Written(d)) - Len(ext[d].buf) = PrefixLen(msgs[d], i)

\* A whole second valid message sits in the buffer, the first was emitted.
Pipelined(d) ==
    /\ Framing(ext[d])
    /\ Len(msgs[d]) >= 2 /\ Valid(msgs[d][1]) /\ Valid(msgs[d][2])
    /\ Len(EventsOf(d)) = 1
    /\ ext[d].header = Nil
    /\ Len(ext[d].buf) >= msgs[d][2].size
    /\ Len(Written(d)) - Len(ext[d].buf) = msgs[d][1].size

\* C3: a Write completes at most one message; a Write that leaves a whole
\* second valid message in the buffer has emitted exactly the first, and the
\* next Write on that extractor, whatever it carries, emits the second and
\* keeps exactly the bytes it carried.
C3_Pipelining ==
    [][ /\ Len(emitted') <= Len(emitted) + 1
        /\ \A d \in Dirs :
              (Pipelined(d) /\ msgs' = msgs /\ last'.dir = d)
              => /\ Len(EventsOf(d)') = 2
                 /\ EventsOf(d)'[2].ev.RequestID = 2
                 /\ ext'[d].buf = Drop(ext[d].buf, msgs[d][2].size)
                                      \o Take(pending[d],
                                              Len(pending[d]) - Len(pending'[d]))
      ]_vars

\* The identity-carrying events before position j of the ledger queue.
Setters(j) == { i \in 1 .. j - 1 : UserOf(MsgOf(emitted[i])) # 0 }
Latest(S) == CHOOSE i \in S : \A k \in S : k <= i

\* C4: once a message carrying an identity has been extracted in the dialog,
\* every later extracted message of the dialog that carries none is emitted
\* with the identity set last before it.
C4_IdentityInherited ==
    impl = "part_001"
    => \A j \in 1 .. Len(emitted) :
          (UserOf(MsgOf(emitted[j])) = 0 /\ Setters(j) # {})
          => emitted[j].ev.Identity
                = UserOf(MsgOf(emitted[Latest(Setters(j))]))

\* C5: both directions' extractors hold the one Dialog Context: their
\* contexts never differ, and an identity-less message extracted on one
\* direction reports the identity a message of the other direction set.
C5_ContextShared ==
    impl = "part_001"
    => /\ ext["req"].context = ext["resp"].context
       /\ \A i, j \in 1 .. Len(emitted) :
             (i < j /\ emitted[i].from # emitted[j].from
                /\ UserOf(MsgOf(emitted[j])) = 0
                /\ Setters(j) # {} /\ i = Latest(Setters(j)))
             => emitted[j].ev.Identity = UserOf(MsgOf(emitted[i]))

\* C6 as stated: once the context's user is non-empty, no step changes it.
C6_SetAtMostOnce ==
    [][ \A d \in Dirs :
           ext[d].context.User # 0
           => ext'[d].context.User = ext[d].context.User ]_vars

\* C6 amended: the context's user changes only in a Write that emits a
\* message carrying a non-empty identity, and becomes that identity; a
\* message without credentials never changes it.
C6_SetOnlyByCredentials ==
    [][ \A d \in Dirs :
           ext'[d].context.User # ext[d].context.User
           => /\ Len(emitted') = Len(emitted) + 1
              /\ LET x == emitted'[Len(emitted')]
                     m == msgs'[x.from][x.ev.RequestID]
                 IN  /\ x.from = d
                     /\ UserOf(m) # 0
                     /\ ext'[d].context.User = UserOf(m)
                     /\ x.ev.Identity = UserOf(m) ]_vars

\* The identity was set, then replaced by a later message's.
C6_Witness ==
    \E d \in Dirs :
        /\ Len(EventsOf(d)) = 2
        /\ EventsOf(d)[1].ev.Identity = 1
        /\ EventsOf(d)[2].ev.Identity = 2
        /\ ext[d].context.User = 2

\* C7: the events of one extractor are in the order its messages' bytes
\* were written: request ids (the position in the stream) strictly increase.
C7_PerDirectionOrder ==
    \A d \in Dirs :
        \A i, j \in 1 .. Len(EventsOf(d)) :
            i < j => EventsOf(d)[i].ev.RequestID < EventsOf(d)[j].ev.RequestID

\* Two messages written, both emitted.
C7_Witness ==
    \E d \in Dirs : Len(msgs[d]) = 2 /\ Len(EventsOf(d)) = 2

\* C9: every Write returns n = len(p), whatever else it returns.
C9_FullConsumption == last.dir # "none" => last.full

\* Writes that returned an error and writes that emitted have happened.
C9_Witness ==
    /\ last.dir # "none" /\ last.err \in ExtractErrs /\ last.full
    /\ Len(emitted) >= 1

RECURSIVE Run(_, _)
Run(e, cs) ==
    IF cs = <<>> THEN [ e |-> e, out |-> <<>> ]
    ELSE LET r == Write(e, Head(cs))
             s == Run(r.e, Tail(cs))
         IN  [ e |-> s.e, out |-> r.out \o s.out ]

Front(s) == SubSeq(s, 1, Len(s) - 1)
Holders(d) ==
    { t \in Threads : thr[t].dir = d /\ thr[t].pc \in {"locked", "appended"} }

\* C8: under any interleaving of Write calls on one extractor, at most one
\* call is between Lock and Unlock, and buffer, held header, context and
\* emitted events are those of running the calls one after the other in
\* locking order; a call in progress has added its whole chunk or nothing.
C8_Serializable ==
    \A d \in Dirs :
        /\ Cardinality(Holders(d)) <= 1
        /\ Holders(d) = {}
             => /\ ext[d] = Run(Fresh(d), order[d]).e
                /\ EventsOf(d) = Tag(d, Run(Fresh(d), order[d]).out)
        /\ \A t \in Holders(d) :
              LET before == Run(Fresh(d), Front(order[d]))
              IN  /\ EventsOf(d) = Tag(d, before.out)
                  /\ thr[t].pc = "locked" => ext[d] = before.e
                  /\ thr[t].pc = "appended"
                       => ext[d] = AppendBuf(before.e, thr[t].b)

\* Two calls overlapped: one waits for the lock while the other has appended,
\* and an earlier call has already emitted.
C8_Witness ==
    \E d \in Dirs, t, u \in Threads :
        /\ thr[t].dir = d /\ thr[t].pc = "appended"
        /\ thr[u].dir = d /\ thr[u].pc = "copied"
        /\ Len(order[d]) >= 2
        /\ Len(EventsOf(d)) >= 1

\* The bytes an extractor has dropped from the front of its stream.
Consumed(d) == Len(Written(d)) - Len(ext[d].buf)

\* C11: a header declaring less than the header length is never held, no
\* event comes from a slice shorter than a header, and what reset has
\* dropped is nothing or at least a header's worth of bytes.
C11_ShortSizeRejected ==
    \A d \in Dirs :
        Framing(ext[d])
        => /\ ext[d].header # Nil
                => ~LenLtSizeI32(Deref(ext[d].header).MessageSize, HeaderLen)
           /\ Consumed(d) = 0 \/ Consumed(d) >= HeaderLen
           /\ Len(EventsOf(d)) > 0 => Consumed(d) >= HeaderLen

\* The extractor holds a header and waits for more bytes of its message.
AwaitingBody(e) ==
    /\ e.header # Nil
    /\ IF e.kind = "Extractor" THEN NeedMore(e) ELSE NeedMoreReq(e)

\* C12: an extractor waiting for body bytes never holds a header whose
\* opcode is outside the recognized set.
C12_UnknownOpcodeNotPending ==
    \A d \in Dirs :
        (Framing(ext[d]) /\ AwaitingBody(ext[d]))
        => Deref(ext[d].header).OpCode \in Recognized

\* C13: the buffer is what is left of the written stream after the bytes
\* reset has dropped; those are the slices of the emitted messages, one
\* after the other from the start of the stream, each emitted once.
C13_ByteConservation ==
    \A d \in Dirs :
        Framing(ext[d])
        => /\ ext[d].buf = Drop(Written(d), Consumed(d))
           /\ Consumed(d) = PrefixLen(msgs[d], Len(EventsOf(d)))
           /\ \A i \in 1 .. Len(EventsOf(d)) : EventsOf(d)[i].ev.RequestID = i

\* A message was emitted and the bytes written behind it are still buffered.
C13_Witness ==
    \E d \in Dirs :
        /\ Framing(ext[d])
        /\ Len(EventsOf(d)) = 1
        /\ Len(ext[d].buf) >= HeaderLen
        /\ ext[d].buf = Take(MsgBytes(msgs[d][2]), Len(ext[d].buf))

\* The scenario's message on direction d, and its two chunks.
QueryOf20(d) ==
    /\ Framing(ext[d])
    /\ Len(msgs[d]) = 1
    /\ msgs[d][1].opcode = OpQuery /\ msgs[d][1].size = 20
    /\ msgs[d][1].requestId = 1 /\ msgs[d][1].responseTo = -1
FirstChunk(d) == Take(MsgBytes(msgs[d][1]), 12)
SecondChunk(d) == Drop(MsgBytes(msgs[d][1]), 12)

\* After the first Write nothing is emitted and no header is held; after
\* the second exactly one event of type ty is emitted, the buffer is empty.
ScenarioHolds(d, ty) ==
    /\ order[d] = << FirstChunk(d) >>
         => /\ EventsOf(d) = <<>>
            /\ ext[d].header = Nil
            /\ last.out = 0
    /\ order[d] = << FirstChunk(d), SecondChunk(d) >>
         => /\ Len(EventsOf(d)) = 1
            /\ EventsOf(d)[1].ev.Type = ty
            /\ last.out = 1
            /\ ext[d].buf = <<>>

\* C14 as stated: the 20-byte QUERY written as 12 + 8 bytes gives one event
\* of type "query-protocol".
C14_ScenarioQueryProtocol ==
    \A d \in Dirs : QueryOf20(d) => ScenarioHolds(d, "query-protocol")

\* C14 amended: the same scenario gives one event of type "mongo".
C14_ScenarioMongo ==
    \A d \in Dirs : QueryOf20(d) => ScenarioHolds(d, "mongo")

\* Both chunks of the scenario have been written.
C14_Witness ==
    \E d \in Dirs :
        /\ QueryOf20(d)
        /\ order[d] = << FirstChunk(d), SecondChunk(d) >>
        /\ Len(emitted) = 1

\* All bytes of the i-th message of direction d have been written to the tap.
Complete(d, i) ==
    /\ Framing(ext[d])
    /\ Len(msgs[d]) >= i
    /\ Len(Written(d)) >= PrefixLen(msgs[d], i)

\* The extractor has dropped the i-th message's bytes from its buffer.
Taken(d, i) == Len(msgs[d]) >= i /\ Consumed(d) >= PrefixLen(msgs[d], i)

\* C15: every message whose bytes have all been written to an extractor is
\* eventually taken out of its buffer.
C15_Draining ==
    \A d \in Dirs : \A i \in 1 .. MaxMsgs : Complete(d, i) ~> Taken(d, i)

\* C16: no Write returns the decoder's "too few bytes" error; a header
\* comes to be held only by decoding a buffer longer than HeaderLen, and
\* while it is held it is not decoded again.
C16_DecodeGuard ==
    [][ \A d \in Dirs :
           Framing(ext[d])
           => /\ last'.err # "short"
              /\ (ext[d].header = Nil /\ ext'[d].header # Nil)
                   => /\ Len(ext'[d].buf) > HeaderLen
                      /\ ext'[d].header = decodeHeader(ext'[d].buf).header
              /\ (ext[d].header # Nil /\ ext'[d].header # Nil)
                   => ext'[d].header = ext[d].header ]_vars

\* A header decoded by the first Write is still held after the second.
C16_Witness ==
    \E d \in Dirs :
        /\ Framing(ext[d])
        /\ AwaitingBody(ext[d])
        /\ Len(order[d]) = 2
        /\ Len(order[d][1]) > HeaderLen

\* C17: whatever the size field holds, no Write fails the bounds check of
\* e.buf[:size] or e.buf[size:], and none returns extractMessage's
\* length-mismatch error.
C17_SliceInRange == last.err # "panic" /\ last.err # "length"

\* The opcodes the extractor behind direction d builds a message for.
Extractable(d) == IF ext[d].kind = "Extractor" THEN Implemented ELSE Recognized

\* The extractor holds a header whose whole message is buffered: the
\* extraction of the Write that just returned has failed.
ExtractionFailed(d) == ext[d].header # Nil /\ ~AwaitingBody(ext[d])

DialogOf(w) == IF w \in Dirs THEN Dirs ELSE Slots \ Dirs

\* C19: a Write through writer w leaves buffer and header of every other
\* extractor as they were, and leaves the extractors of the other dialog
\* wholly unchanged.
C19_Frame ==
    [][ \A w \in Slots :
           (msgs' = msgs /\ last'.dir = w)
           => \A s \in Slots \ {w} :
                 /\ ext'[s].buf = ext[s].buf
                 /\ ext'[s].header = ext[s].header
                 /\ s \notin DialogOf(w) => ext'[s] = ext[s] ]_vars

\* Both directions of the observed dialog hold bytes, and a Write of the
\* second dialog has just emitted.
C19_Witness ==
    /\ ext["req"].buf # <<>> /\ ext["resp"].buf # <<>>
    /\ \E d \in Dirs : last.dir = Second(d) /\ last.out = 1

RECURSIVE Wire(_)
Wire(rs) == IF rs = <<>> THEN <<>> ELSE Head(rs) \o <<NUL>> \o Wire(Tail(rs))

\* C20: the records handed to ParseCommand are the first records sent, in
\* order and once each, and every byte sent is in a record already handed
\* over, in the reader, or still on the connection.
C20_NoRecordLost ==
    /\ Len(parsed) <= Len(records)
    /\ parsed = Take(records, Len(parsed))
    /\ Wire(parsed) \o rd \o conn = Wire(records)

====
